---------------------------- MODULE Spec2Model ----------------------------
(* A model of nvinstall.py: environment detection, resolution of the       *)
(* install plan for a distribution, and the sequential execution of the    *)
(* plan.  Text that the program inspects character by character (the       *)
(* distribution id, the version id, the machine identifier, the lines of   *)
(* /etc/os-release) is a sequence of one-character strings.  A shell       *)
(* command is the sequence of its blank-separated words, and a word is the *)
(* sequence of its parts: one part for a plain word; for a repository URL *)
(* the fixed prefix, the repository directory, the architecture directory  *)
(* and the file name.                                                      *)
EXTENDS Integers, Sequences, FiniteSets, TLC

VARIABLES osFile, system, machine, isRoot,
          pc, distro_id, distro_version, default_arch,
          args, config, commands, idx, log, spawned, rcs, progress, exitCode

vars == <<osFile, system, machine, isRoot,
          pc, distro_id, distro_version, default_arch,
          args, config, commands, idx, log, spawned, rcs, progress, exitCode>>

-----------------------------------------------------------------------------
(* Text helpers: str.lower, str.startswith, "in", str.strip, str.split.    *)

UpperLetters == <<"A","B","C","D","E","F","G","H","I","J","K","L","M",
                  "N","O","P","Q","R","S","T","U","V","W","X","Y","Z">>

LowerLetters == <<"a","b","c","d","e","f","g","h","i","j","k","l","m",
                  "n","o","p","q","r","s","t","u","v","w","x","y","z">>

LowerChar(c) ==
    IF \E i \in DOMAIN UpperLetters : UpperLetters[i] = c
    THEN LowerLetters[CHOOSE i \in DOMAIN UpperLetters : UpperLetters[i] = c]
    ELSE c

Lower(s) == [i \in 1..Len(s) |-> LowerChar(s[i])]

StartsWith(s, p) == Len(s) >= Len(p) /\ SubSeq(s, 1, Len(p)) = p

Contains(s, p) ==
    \E i \in 1..(Len(s) - Len(p) + 1) : SubSeq(s, i, i + Len(p) - 1) = p

Whitespace == {" ", "\n", "\t"}

RECURSIVE LStrip(_, _)
LStrip(s, cs) ==
    IF s # <<>> /\ Head(s) \in cs THEN LStrip(Tail(s), cs) ELSE s

RECURSIVE RStrip(_, _)
RStrip(s, cs) ==
    IF s # <<>> /\ s[Len(s)] \in cs THEN RStrip(SubSeq(s, 1, Len(s) - 1), cs) ELSE s

Strip(s, cs) == RStrip(LStrip(s, cs), cs)

FirstEq(s) == CHOOSE i \in 1..Len(s) : s[i] = "=" /\ \A j \in 1..(i - 1) : s[j] # "="

SplitKey(s) == SubSeq(s, 1, FirstEq(s) - 1)

SplitValue(s) == SubSeq(s, FirstEq(s) + 1, Len(s))

-----------------------------------------------------------------------------
(* Environment detection.                                                  *)

NoFile == <<"ENOENT">>

RECURSIVE ScanOsRelease(_, _)
ScanOsRelease(lines, acc) ==
    IF lines = <<>> THEN acc
    ELSE LET line == Head(lines)
             rest == Tail(lines)
         IN IF ~ Contains(line, <<"=">>) THEN ScanOsRelease(rest, acc)
            ELSE LET stripped == Strip(line, Whitespace)
                     key == SplitKey(stripped)
                     value == Strip(SplitValue(stripped), {"\""})
                 IN IF key = <<"I","D">> THEN ScanOsRelease(rest, <<value, acc[2]>>)
                    ELSE IF key = <<"V","E","R","S","I","O","N","_","I","D">> THEN ScanOsRelease(rest, <<acc[1], value>>)
                    ELSE ScanOsRelease(rest, acc)

detect_os_release(file, sys) ==
    IF file = NoFile THEN <<Lower(sys), <<>>>>
    ELSE ScanOsRelease(file, << <<>>, <<>> >>)

detect_architecture_raw(m) ==
    IF m \in {<<"x","8","6","_","6","4">>, <<"a","m","d","6","4">>} THEN <<"x","8","6","_","6","4">>
    ELSE IF m \in {<<"a","a","r","c","h","6","4">>, <<"a","r","m","6","4">>, <<"a","r","m","v","8">>} THEN <<"s","b","s","a">>
    ELSE m

detect_architecture(m) ==
    LET mach == Lower(m)
    IN IF mach \in {<<"x","8","6","_","6","4">>, <<"a","m","d","6","4">>} THEN <<"x","8","6","_","6","4">>
       ELSE IF mach \in {<<"a","a","r","c","h","6","4">>, <<"a","r","m","6","4">>, <<"a","r","m","v","8">>} THEN <<"s","b","s","a">>
       ELSE mach

rhel_key(v) ==
    IF StartsWith(v, <<"8">>) THEN <<"r","h","e","l","8">>
    ELSE IF StartsWith(v, <<"9">>) THEN <<"r","h","e","l","9">>
    ELSE IF StartsWith(v, <<"1","0">>) THEN <<"r","h","e","l","1","0">>
    ELSE <<>>

distro_key(d0, v0) ==
    LET d == Lower(d0)
        v == Lower(v0)
    IN IF d = <<"u","b","u","n","t","u">> /\ StartsWith(v, <<"2","2",".","0","4">>) THEN <<"u","b","u","n","t","u","2","2",".","0","4">>
       ELSE IF d = <<"d","e","b","i","a","n">> /\ StartsWith(v, <<"1","2">>) THEN <<"d","e","b","i","a","n","1","2">>
       ELSE IF d = <<"f","e","d","o","r","a">> THEN <<"f","e","d","o","r","a","4","2">>
       ELSE IF d \in {<<"o","p","e","n","s","u","s","e">>, <<"o","p","e","n","s","u","s","e","-","l","e","a","p">>, <<"s","u","s","e">>, <<"s","l","e","s">>} THEN <<"o","p","e","n","s","u","s","e","1","5">>
       ELSE IF d \in {<<"r","h","e","l">>, <<"r","e","d","h","a","t">>} /\ rhel_key(v) # <<>> THEN rhel_key(v)
       ELSE IF d \in {<<"r","o","c","k","y">>, <<"a","l","m","a","l","i","n","u","x">>, <<"o","r","a","c","l","e","l","i","n","u","x">>} /\ rhel_key(v) # <<>>
            THEN rhel_key(v)
       ELSE IF d \in {<<"a","m","z","n">>, <<"a","m","a","z","o","n">>, <<"a","m","a","z","o","n","l","i","n","u","x">>, <<"a","m","a","z","o","n"," ","l","i","n","u","x">>}
               /\ (Contains(v, <<"2","0","2","3">>) \/ v = <<"2","0","2","3">>) THEN <<"a","m","a","z","o","n","l","i","n","u","x","2","0","2","3">>
       ELSE IF d \in {<<"a","z","u","r","e","l","i","n","u","x">>, <<"a","z","u","r","e">>, <<"a","z","l">>, <<"a","z","l","i","n","u","x">>}
               /\ (StartsWith(v, <<"3">>) \/ v = <<"3">>) THEN <<"a","z","u","r","e","l","i","n","u","x","3">>
       ELSE d \o (IF v = <<>> THEN <<>> ELSE <<"-">> \o v)

InstallerConfig(a) ==
    [distro |-> Lower(a.distro), arch |-> Lower(a.arch),
     module |-> Lower(a.module), variant |-> Lower(a.variant),
     dry_run |-> a.dry_run]


-----------------------------------------------------------------------------
(* The logger: an entry is a level, the kind of message and its data.      *)

LogEntry(level, kind, data) == [level |-> level, kind |-> kind, data |-> data]

Banner ==
    << LogEntry("INFO", "version", <<>>), LogEntry("INFO", "description", <<>>),
       LogEntry("INFO", "license", <<>>), LogEntry("INFO", "blank", <<>>) >>

Information(a, version) ==
    << LogEntry("INFO", "header", <<>>),
       LogEntry("INFO", "distribution", <<a.distro, version>>),
       LogEntry("INFO", "architecture", <<a.arch>>),
       LogEntry("INFO", "module", <<a.module>>),
       LogEntry("INFO", "variant", <<a.variant>>),
       LogEntry("INFO", "options", <<a.dry_run>>),
       LogEntry("INFO", "blank", <<>>) >>

-----------------------------------------------------------------------------
(* Plan resolution.                                                        *)

RepoBase == "https://developer.download.nvidia.com/compute/cuda/repos"

Url(repo, arch, file) == <<RepoBase, repo, arch, file>>

Open == <<"o","p","e","n">>

Proprietary == <<"p","r","o","p","r","i","e","t","a","r","y">>

Full == <<"f","u","l","l">>

ComputeOnly == <<"c","o","m","p","u","t","e","-","o","n","l","y">>

DesktopOnly == <<"d","e","s","k","t","o","p","-","o","n","l","y">>

SupportedTargets ==
    {<<"a","m","a","z","o","n","l","i","n","u","x","2","0","2","3">>, <<"a","z","u","r","e","l","i","n","u","x","3">>, <<"d","e","b","i","a","n","1","2">>, <<"f","e","d","o","r","a","4","2">>, <<"o","p","e","n","s","u","s","e","1","5">>,
     <<"r","h","e","l","8">>, <<"r","h","e","l","9">>, <<"r","h","e","l","1","0">>, <<"u","b","u","n","t","u","2","2",".","0","4">>}

warn_variant_always(variant) ==
    <<[level |-> "WARNING", kind |-> "variant-treated-as-full", data |-> <<variant>>]>>

warn_variant_if_needed(variant) ==
    IF variant \in {ComputeOnly, DesktopOnly}
    THEN <<LogEntry("WARNING", "variant-treated-as-full", <<variant>>)>>
    ELSE <<>>

Unsupported(distro, key) == LogEntry("CRITICAL", "unsupported", <<distro, key>>)

recipe(key, module) ==
    LET Plan(cmds) == [ok |-> TRUE, commands |-> cmds]
    IN IF key = <<"a","m","a","z","o","n","l","i","n","u","x","2","0","2","3">> THEN
           Plan(<< <<<<"dnf">>, <<"upgrade">>, <<"-y">>>>,
                   <<<<"dnf">>, <<"config-manager">>, <<"--add-repo">>>>
                       \o <<Url("amzn2023", "x86_64", "cuda-amzn2023.repo")>>,
                   <<<<"dnf">>, <<"clean">>, <<"all">>>> >>
                \o (IF module = Open
                    THEN << <<<<"dnf">>, <<"-y">>, <<"module">>, <<"install">>, <<"nvidia-driver:open-dkms">>>> >>
                    ELSE << <<<<"dnf">>, <<"-y">>, <<"module">>, <<"install">>, <<"nvidia-driver:latest-dkms">>>> >>))
       ELSE IF key = <<"a","z","u","r","e","l","i","n","u","x","3">> THEN
           Plan(<< <<<<"tdnf">>, <<"upgrade">>, <<"-y">>>>,
                   <<<<"curl">>>> \o <<Url("azl3", "x86_64", "cuda-azl3.repo")>>
                       \o <<<<"|">>, <<"tee">>, <<"/etc/yum.repos.d/cuda-azl3.repo">>>>,
                   <<<<"tdnf">>, <<"-y">>, <<"install">>, <<"azurelinux-repos-extended">>>>,
                   <<<<"tdnf">>, <<"clean">>, <<"all">>>> >>
                \o << <<<<"tdnf">>, <<"-y">>, <<"install">>, <<"nvidia-open">>>> >>)
       ELSE IF key = <<"d","e","b","i","a","n","1","2">> THEN
           Plan(<< <<<<"apt-get">>, <<"upgrade">>, <<"-y">>>>,
                   <<<<"wget">>>> \o <<Url("debian12", "x86_64", "cuda-keyring_1.1-1_all.deb")>>,
                   <<<<"dpkg">>, <<"-i">>, <<"cuda-keyring_1.1-1_all.deb">>>>,
                   <<<<"apt-get">>, <<"update">>>> >>
                \o (IF module = Open
                    THEN << <<<<"apt-get">>, <<"install">>, <<"-y">>, <<"nvidia-open">>>> >>
                    ELSE << <<<<"apt-get">>, <<"install">>, <<"-y">>, <<"cuda-drivers">>>> >>))
       ELSE IF key = <<"f","e","d","o","r","a","4","2">> THEN
           Plan(<< <<<<"dnf">>, <<"upgrade">>, <<"-y">>>>,
                   <<<<"dnf">>, <<"config-manager">>, <<"addrepo">>, <<"--from-repofile">>>>
                       \o <<Url("fedora42", "x86_64", "cuda-fedora42.repo")>>,
                   <<<<"dnf">>, <<"clean">>, <<"all">>>> >>
                \o (IF module = Open
                    THEN << <<<<"dnf">>, <<"-y">>, <<"install">>, <<"nvidia-open">>>> >>
                    ELSE << <<<<"dnf">>, <<"-y">>, <<"install">>, <<"cuda-drivers">>>> >>))
       ELSE IF key = <<"o","p","e","n","s","u","s","e","1","5">> THEN
           Plan(<< <<<<"zypper">>, <<"update">>, <<"-y">>>>,
                   <<<<"zypper">>, <<"addrepo">>>>
                       \o <<Url("opensuse15", "x86_64", "cuda-opensuse15.repo")>>,
                   <<<<"zypper">>, <<"refresh">>>> >>
                \o (IF module = Open
                    THEN << <<<<"zypper">>, <<"install">>, <<"-y">>, <<"nvidia-open">>>> >>
                    ELSE << <<<<"zypper">>, <<"install">>, <<"-y">>, <<"cuda-drivers">>>> >>))
       ELSE IF key \in {<<"r","h","e","l","8">>, <<"r","h","e","l","9">>} THEN
           LET ver == IF key = <<"r","h","e","l","8">> THEN "8" ELSE "9"
               repo == IF ver = "8" THEN "rhel8" ELSE "rhel9"
               repofile == IF ver = "8" THEN "cuda-rhel8.repo" ELSE "cuda-rhel9.repo"
           IN Plan(<< <<<<"dnf">>, <<"upgrade">>, <<"-y">>>>,
                      <<<<"dnf">>, <<"config-manager">>, <<"--add-repo">>>> \o <<Url(repo, "x86_64", repofile)>>,
                      <<<<"dnf">>, <<"clean">>, <<"all">>>> >>
                   \o (IF module = Open
                       THEN << <<<<"dnf">>, <<"-y">>, <<"module">>, <<"install">>, <<"nvidia-driver:open-dkms">>>> >>
                       ELSE << <<<<"dnf">>, <<"-y">>, <<"module">>, <<"install">>, <<"nvidia-driver:latest-dkms">>>> >>))
       ELSE IF key = <<"r","h","e","l","1","0">> THEN
           Plan(<< <<<<"dnf">>, <<"upgrade">>, <<"-y">>>>,
                   <<<<"dnf">>, <<"config-manager">>, <<"--add-repo">>>>
                       \o <<Url("rhel10", "x86_64", "cuda-rhel10.repo")>> >>
                \o (IF module = Open
                    THEN << <<<<"dnf">>, <<"-y">>, <<"install">>, <<"nvidia-open">>>> >>
                    ELSE << <<<<"dnf">>, <<"-y">>, <<"install">>, <<"cuda-drivers">>>> >>))
       ELSE IF key = <<"u","b","u","n","t","u","2","2",".","0","4">> THEN
           Plan(<< <<<<"apt-get">>, <<"upgrade">>, <<"-y">>>>,
                   <<<<"wget">>>> \o <<Url("ubuntu2204", "x86_64", "cuda-keyring_1.1-1_all.deb")>>,
                   <<<<"dpkg">>, <<"-i">>, <<"cuda-keyring_1.1-1_all.deb">>>>,
                   <<<<"apt-get">>, <<"update">>>> >>
                \o (IF module = Open
                    THEN << <<<<"apt-get">>, <<"install">>, <<"-y">>, <<"nvidia-open">>>> >>
                    ELSE << <<<<"apt-get">>, <<"install">>, <<"-y">>, <<"cuda-drivers">>>> >>))
       ELSE [ok |-> FALSE, commands |-> <<>>]

Warned(cfg) ==
    IF cfg.variant \in {ComputeOnly, DesktopOnly}
    THEN <<LogEntry("WARNING", "variant-treated-as-full", <<cfg.variant>>)>>
    ELSE <<>>

Resolved(cfg, file, sys, r) ==
    IF r.ok
    THEN [ok |-> TRUE, commands |-> r.commands, log |-> Warned(cfg)]
    ELSE [ok |-> FALSE, commands |-> <<>>,
          log |-> Warned(cfg)
                  \o <<Unsupported(cfg.distro,
                                   distro_key(cfg.distro, detect_os_release(file, sys)[2]))>>]

build_commands_no_raise(cfg, file, sys) ==
    [ok |-> TRUE,
     commands |-> recipe(distro_key(cfg.distro, detect_os_release(file, sys)[2]),
                         cfg.module).commands,
     log |-> Warned(cfg)]

build_commands_module_flipped(cfg, file, sys) ==
    Resolved(cfg, file, sys,
             recipe(distro_key(cfg.distro, detect_os_release(file, sys)[2]),
                    IF cfg.module = Open THEN Proprietary ELSE Open))

build_commands_repo_twice(cfg, file, sys) ==
    LET r == recipe(distro_key(cfg.distro, detect_os_release(file, sys)[2]), cfg.module)
    IN Resolved(cfg, file, sys,
                [r EXCEPT !.commands =
                    IF Len(@) >= 2 THEN SubSeq(@, 1, 2) \o SubSeq(@, 2, Len(@)) ELSE @])

build_commands_arch_aware(cfg, file, sys) ==
    LET r == recipe(distro_key(cfg.distro, detect_os_release(file, sys)[2]), cfg.module)
        ForArch(word) ==
            IF Len(word) = 4 /\ word[1] = RepoBase /\ cfg.arch = <<"s","b","s","a">>
            THEN [word EXCEPT ![3] = "sbsa"] ELSE word
    IN Resolved(cfg, file, sys,
                [r EXCEPT !.commands =
                    [i \in 1..Len(@) |-> [j \in 1..Len(@[i]) |-> ForArch(@[i][j])]]])

build_commands(cfg, file, sys) ==
    LET key == distro_key(cfg.distro, detect_os_release(file, sys)[2])
        warned == warn_variant_if_needed(cfg.variant)
        r == recipe(key, cfg.module)
    IN IF r.ok
       THEN [ok |-> TRUE, commands |-> r.commands, log |-> warned]
       ELSE [ok |-> FALSE, commands |-> <<>>,
             log |-> warned \o <<Unsupported(cfg.distro, key)>>]

-----------------------------------------------------------------------------
(* Command execution.                                                      *)

ReturnCodes == {0, 2, -9}

ExitStatus(code) == code % 256

ExitUnsupported == 1

use_sudo(sys, root) == Lower(sys) # <<"w","i","n","d","o","w","s">> /\ ~ root

run_command_no_exit(cmd, dry_run, sudo, rc) ==
    LET full_cmd == IF sudo THEN <<<<"sudo">>, <<"-E">>>> \o cmd ELSE cmd
        logged == <<LogEntry("INFO", "command", full_cmd)>>
    IN IF dry_run
       THEN [log |-> logged, spawned |-> <<>>, rcs |-> <<>>, exit |-> <<>>]
       ELSE [log |-> logged, spawned |-> <<full_cmd>>, rcs |-> <<rc>>, exit |-> <<>>]

run_command_dry_ignored(cmd, dry_run, sudo, rc) ==
    LET full_cmd == IF sudo THEN <<<<"sudo">>, <<"-E">>>> \o cmd ELSE cmd
        logged == <<LogEntry("INFO", "command", full_cmd)>>
    IN IF rc # 0
       THEN [log |-> logged \o <<LogEntry("CRITICAL", "command-failed", <<rc>>)>>,
             spawned |-> <<full_cmd>>, rcs |-> <<rc>>, exit |-> <<ExitStatus(rc)>>]
       ELSE [log |-> logged, spawned |-> <<full_cmd>>, rcs |-> <<rc>>, exit |-> <<>>]

run_command(cmd, dry_run, sudo, rc) ==
    LET full_cmd == IF sudo THEN <<<<"sudo">>, <<"-E">>>> \o cmd ELSE cmd
        logged == <<LogEntry("INFO", "command", full_cmd)>>
    IN IF dry_run
       THEN [log |-> logged, spawned |-> <<>>, rcs |-> <<>>, exit |-> <<>>]
       ELSE IF rc # 0
       THEN [log |-> logged \o <<LogEntry("CRITICAL", "command-failed", <<rc>>)>>,
             spawned |-> <<full_cmd>>, rcs |-> <<rc>>, exit |-> <<ExitStatus(rc)>>]
       ELSE [log |-> logged, spawned |-> <<full_cmd>>, rcs |-> <<rc>>, exit |-> <<>>]

ProgressBar(total) == [total |-> IF total > 1 THEN total ELSE 1, cur |-> 0]

-----------------------------------------------------------------------------
(* The environments and the command lines the model runs the program on.   *)

OsRelease(idLine, versionLines) ==
    << <<"N","A","M","E","=","\"","L","i","n","u","x","\"","\n">>, idLine >> \o versionLines
       \o << <<"\n">>, <<"H","O","M","E","_","U","R","L","=","\"","h","t","t","p","s",":","/","/","e","x","a","m","p","l","e",".","o","r","g","/","?","i","d","=","1","\"","\n">> >>

OsReleaseFiles ==
    { OsRelease(<<"I","D","=","u","b","u","n","t","u","\n">>, << <<"V","E","R","S","I","O","N","_","I","D","=","\"","2","2",".","0","4","\"","\n">> >>),
      OsRelease(<<"I","D","=","u","b","u","n","t","u","\n">>, << <<"V","E","R","S","I","O","N","_","I","D","=","\"","2","4",".","0","4","\"","\n">> >>),
      OsRelease(<<"I","D","=","d","e","b","i","a","n","\n">>, << <<"V","E","R","S","I","O","N","_","I","D","=","\"","1","2","\"","\n">> >>),
      OsRelease(<<"I","D","=","f","e","d","o","r","a","\n">>, << <<"V","E","R","S","I","O","N","_","I","D","=","4","2","\n">> >>),
      OsRelease(<<"I","D","=","\"","o","p","e","n","s","u","s","e","-","l","e","a","p","\"","\n">>, << <<"V","E","R","S","I","O","N","_","I","D","=","\"","1","5",".","6","\"","\n">> >>),
      OsRelease(<<"I","D","=","\"","r","h","e","l","\"","\n">>, << <<"V","E","R","S","I","O","N","_","I","D","=","\"","8",".","1","0","\"","\n">> >>),
      OsRelease(<<"I","D","=","\"","r","o","c","k","y","\"","\n">>, << <<"V","E","R","S","I","O","N","_","I","D","=","\"","9",".","4","\"","\n">> >>),
      OsRelease(<<"I","D","=","\"","r","h","e","l","\"","\n">>, << <<"V","E","R","S","I","O","N","_","I","D","=","\"","1","0",".","0","\"","\n">> >>),
      OsRelease(<<"I","D","=","\"","a","m","z","n","\"","\n">>, << <<"V","E","R","S","I","O","N","_","I","D","=","\"","2","0","2","3","\"","\n">> >>),
      OsRelease(<<"I","D","=","a","z","u","r","e","l","i","n","u","x","\n">>, << <<"V","E","R","S","I","O","N","_","I","D","=","\"","3",".","0","\"","\n">> >>),
      OsRelease(<<"I","D","=","a","r","c","h","\n">>, << >>) }

Environments ==
    [file : OsReleaseFiles, system : {<<"L","i","n","u","x">>}]
        \cup [file : {NoFile}, system : {<<"L","i","n","u","x">>, <<"W","i","n","d","o","w","s">>}]

Machines ==
    {<<"x","8","6","_","6","4">>, <<"A","M","D","6","4">>, <<"a","a","r","c","h","6","4">>, <<"a","r","m","6","4">>, <<"a","r","m","v","8">>, <<"R","I","S","C","V","6","4">>}

DistroArgs ==
    {<<"U","b","u","n","t","u">>, <<"a","l","m","a","l","i","n","u","x">>, <<"m","a","r","s","w","a","l","k","e","r","9">>}

ArchArgs == {<<"S","B","S","A">>}

Modules == {Open, Proprietary}

Variants == {Full, ComputeOnly, DesktopOnly}

NoArgs ==
    [distro |-> <<>>, arch |-> <<>>, module |-> <<>>, variant |-> <<>>, dry_run |-> FALSE]

-----------------------------------------------------------------------------
(* The program: main().                                                    *)

Init ==
    /\ \E env \in Environments : osFile = env.file /\ system = env.system
    /\ machine \in Machines
    /\ isRoot \in BOOLEAN
    /\ pc = "start"
    /\ distro_id = <<>>
    /\ distro_version = <<>>
    /\ default_arch = <<>>
    /\ args = NoArgs
    /\ config = NoArgs
    /\ commands = <<>>
    /\ idx = 0
    /\ log = <<>>
    /\ spawned = <<>>
    /\ rcs = <<>>
    /\ progress = [total |-> 0, cur |-> 0]
    /\ exitCode = <<>>

Detect ==
    /\ pc = "start"
    /\ distro_id' = detect_os_release(osFile, system)[1]
    /\ distro_version' = detect_os_release(osFile, system)[2]
    /\ default_arch' = detect_architecture(machine)
    /\ pc' = "detected"
    /\ UNCHANGED <<osFile, system, machine, isRoot, args, config, commands, idx, log,
                   spawned, rcs, progress, exitCode>>

ParseArgs ==
    /\ pc = "detected"
    /\ \E d \in {distro_id} \cup DistroArgs, a \in {default_arch} \cup ArchArgs,
          m \in Modules, v \in Variants, dr \in BOOLEAN :
          args' = [distro |-> d, arch |-> a, module |-> m, variant |-> v, dry_run |-> dr]
    /\ pc' = "parsed"
    /\ UNCHANGED <<osFile, system, machine, isRoot, distro_id, distro_version, default_arch,
                   config, commands, idx, log, spawned, rcs, progress, exitCode>>

Configure ==
    /\ pc = "parsed"
    /\ log' = log \o Banner \o Information(args, distro_version)
    /\ config' = InstallerConfig(args)
    /\ pc' = "configured"
    /\ UNCHANGED <<osFile, system, machine, isRoot, distro_id, distro_version, default_arch,
                   args, commands, idx, spawned, rcs, progress, exitCode>>

Resolve ==
    /\ pc = "configured"
    /\ LET r == build_commands(config, osFile, system)
       IN IF r.ok
          THEN /\ commands' = r.commands
               /\ log' = log \o r.log
               /\ progress' = ProgressBar(Len(r.commands))
               /\ pc' = "running"
               /\ UNCHANGED exitCode
          ELSE /\ log' = log \o r.log
               /\ exitCode' = <<ExitUnsupported>>
               /\ pc' = "exited"
               /\ UNCHANGED <<commands, progress>>
    /\ UNCHANGED <<osFile, system, machine, isRoot, distro_id, distro_version, default_arch,
                   args, config, idx, spawned, rcs>>

RunNext ==
    /\ pc = "running"
    /\ idx < Len(commands)
    /\ \E rc \in ReturnCodes :
          LET r == run_command(commands[idx + 1], config.dry_run,
                               use_sudo(system, isRoot), rc)
          IN /\ log' = log \o r.log
             /\ spawned' = spawned \o r.spawned
             /\ rcs' = rcs \o r.rcs
             /\ IF r.exit # <<>>
                THEN /\ exitCode' = r.exit
                     /\ pc' = "exited"
                     /\ UNCHANGED <<idx, progress>>
                ELSE /\ idx' = idx + 1
                     /\ progress' = [progress EXCEPT !.cur = @ + 1]
                     /\ UNCHANGED <<pc, exitCode>>
    /\ UNCHANGED <<osFile, system, machine, isRoot, distro_id, distro_version, default_arch,
                   args, config, commands>>

Finish ==
    /\ pc = "running"
    /\ idx = Len(commands)
    /\ progress' = [progress EXCEPT !.cur = progress.total]
    /\ log' = log \o <<LogEntry("INFO", "completed", <<>>)>>
    /\ exitCode' = <<0>>
    /\ pc' = "done"
    /\ UNCHANGED <<osFile, system, machine, isRoot, distro_id, distro_version, default_arch,
                   args, config, commands, idx, spawned, rcs>>

Next == Detect \/ ParseArgs \/ Configure \/ Resolve \/ RunNext \/ Finish

Spec == Init /\ [][Next]_vars

-----------------------------------------------------------------------------
(* Vocabulary of the properties.                                           *)

HostVersion == detect_os_release(osFile, system)[2]

Key == distro_key(config.distro, HostVersion)

AfterResolve == pc \in {"running", "done", "exited"}

ResolvedOk == AfterResolve /\ Key \in SupportedTargets

Elevated(cmd) == IF use_sudo(system, isRoot) THEN <<<<"sudo">>, <<"-E">>>> \o cmd ELSE cmd

Entries(kind) == SelectSeq(log, LAMBDA e : e.kind = kind)

LoggedCommands == [i \in 1..Len(Entries("command")) |-> Entries("command")[i].data]

PlanPrefix(n) == [i \in 1..n |-> Elevated(commands[i])]

HasWord(cmd, w) == \E i \in 1..Len(cmd) : cmd[i] = <<w>>

LastWord(cmd) == cmd[Len(cmd)]

IsRepoUrl(word) == Len(word) = 4 /\ word[1] = RepoBase

IsIndexUpdate(cmd) == Len(cmd) >= 2 /\ cmd[2] \in {<<"upgrade">>, <<"update">>}

IsKeyringRegistration(cmd) ==
    cmd[1] = <<"dpkg">> /\ HasWord(cmd, "-i") /\ LastWord(cmd) = <<"cuda-keyring_1.1-1_all.deb">>

IsRepoRegistration(cmd) ==
    \/ IsKeyringRegistration(cmd)
    \/ HasWord(cmd, "--add-repo")
    \/ HasWord(cmd, "addrepo")
    \/ cmd[1] = <<"curl">> /\ HasWord(cmd, "tee")

IsCacheRefresh(cmd) ==
    \/ HasWord(cmd, "clean") /\ HasWord(cmd, "all")
    \/ HasWord(cmd, "refresh")
    \/ cmd = <<<<"apt-get">>, <<"update">>>>

OpenPackages == {<<"nvidia-open">>, <<"nvidia-driver:open-dkms">>}

ProprietaryPackages == {<<"cuda-drivers">>, <<"nvidia-driver:latest-dkms">>}

IsDriverInstall(cmd) ==
    HasWord(cmd, "install") /\ LastWord(cmd) \in OpenPackages \cup ProprietaryPackages

Count(cmds, P(_)) == Cardinality({i \in 1..Len(cmds) : P(cmds[i])})

NoDuplicates(cmds) == \A i, j \in 1..Len(cmds) : cmds[i] = cmds[j] => i = j

-----------------------------------------------------------------------------
(* C1: in live mode the commands of the plan run one at a time in plan     *)
(* order; every command that ran before the latest one returned 0, a       *)
(* nonzero return ends the process at once with that command's exit code   *)
(* and nothing later is logged or run; a run in which every command        *)
(* returned 0 ran each command exactly once and ends with exit code 0.     *)
C1_FailFast ==
    (ResolvedOk /\ ~ config.dry_run) =>
        /\ Len(spawned) <= Len(commands)
        /\ spawned = PlanPrefix(Len(spawned))
        /\ LoggedCommands = spawned
        /\ Len(rcs) = Len(spawned)
        /\ \A i \in 1..(Len(rcs) - 1) : rcs[i] = 0
        /\ (rcs # <<>> /\ rcs[Len(rcs)] # 0) =>
              /\ pc = "exited"
              /\ rcs[Len(rcs)] \in 1..255 => exitCode = <<rcs[Len(rcs)]>>
              /\ exitCode = <<ExitStatus(rcs[Len(rcs)])>>
              /\ Entries("completed") = <<>>
        /\ pc = "exited" => rcs # <<>> /\ rcs[Len(rcs)] # 0
        /\ pc = "running" =>
              /\ Len(spawned) = idx /\ exitCode = <<>>
              /\ ENABLED (RunNext \/ Finish)
        /\ pc = "done" =>
              /\ spawned = PlanPrefix(Len(commands))
              /\ \A i \in 1..Len(rcs) : rcs[i] = 0
              /\ exitCode = <<0>>

C1_Witness ==
    /\ pc = "exited" /\ ~ config.dry_run
    /\ Len(spawned) = 2 /\ Len(commands) > 2
    /\ rcs = <<0, 2>> /\ exitCode = <<2>>

(* C2: in dry-run mode, once resolution has succeeded, no subprocess is    *)
(* ever spawned, the commands logged so far are the plan's commands in     *)
(* plan order, the run cannot fail or stop early, and at completion every  *)
(* command has been logged and the exit code is 0.                         *)
C2_DryRun ==
    (ResolvedOk /\ config.dry_run) =>
        /\ spawned = <<>> /\ rcs = <<>>
        /\ pc \in {"running", "done"}
        /\ idx <= Len(commands)
        /\ LoggedCommands = PlanPrefix(idx)
        /\ pc = "running" => ENABLED (RunNext \/ Finish)
        /\ pc = "done" => idx = Len(commands) /\ exitCode = <<0>>

C2_Witness ==
    /\ pc = "done" /\ config.dry_run
    /\ Len(commands) >= 3 /\ LoggedCommands = PlanPrefix(Len(commands))
    /\ spawned = <<>> /\ exitCode = <<0>>

(* C3: when the resolved key is none of the supported targets, resolution  *)
(* fails and the process ends with exit code 1 with no command logged or   *)
(* run, in dry-run and in live mode alike.                                 *)
C3_Unsupported ==
    (AfterResolve /\ Key \notin SupportedTargets) =>
        /\ pc = "exited"
        /\ exitCode = <<ExitUnsupported>>
        /\ commands = <<>> /\ LoggedCommands = <<>> /\ spawned = <<>>
        /\ Len(Entries("unsupported")) = 1

C3_Witness ==
    /\ pc = "exited" /\ config.distro = <<"m","a","r","s","w","a","l","k","e","r","9">>
    /\ exitCode = <<ExitUnsupported>> /\ LoggedCommands = <<>>

(* C4: scenario 1.                                                         *)
Scenario1 ==
    /\ config.distro = <<"u","b","u","n","t","u">> /\ config.arch = <<"x","8","6","_","6","4">>
    /\ config.module = Open /\ config.variant = Full /\ config.dry_run

Scenario1Outcome ==
    /\ pc = "done" /\ exitCode = <<0>>
    /\ commands # <<>>
    /\ IsIndexUpdate(commands[1])
    /\ Count(commands, IsKeyringRegistration) = 1
    /\ HasWord(commands[Len(commands)], "install")
    /\ LastWord(commands[Len(commands)]) = <<"nvidia-open">>
    /\ LoggedCommands = PlanPrefix(Len(commands))
    /\ spawned = <<>>

(* C4 as stated: whatever version id the host reports, once the process of *)
(* scenario 1 has ended, the plan starts with an index update, holds       *)
(* exactly one keyring registration, ends with the nvidia-open install,    *)
(* every command was logged, none was run and the exit code is 0.          *)
C4_AnyHostVersion ==
    (Scenario1 /\ pc \in {"done", "exited"}) => Scenario1Outcome

(* C4 as amended: scenario 1 has that outcome when the host's version id   *)
(* starts with 22.04; on any other host version the process ends with exit *)
(* code 1 and no command is logged or run.                                 *)
C4_OnUbuntu2204 ==
    (Scenario1 /\ pc \in {"done", "exited"}) =>
        IF StartsWith(Lower(HostVersion), <<"2","2",".","0","4">>)
        THEN Scenario1Outcome
        ELSE /\ pc = "exited" /\ exitCode = <<ExitUnsupported>>
             /\ LoggedCommands = <<>> /\ spawned = <<>>

C4_Witness ==
    /\ Scenario1 /\ Scenario1Outcome
    /\ args.distro = <<"U","b","u","n","t","u">> /\ HostVersion = <<"2","2",".","0","4">>

(* C5: a resolution that reaches a supported target yields a non-empty     *)
(* plan in which no command occurs twice and exactly one command registers *)
(* the vendor repository; the plan is the recipe of the resolved key and   *)
(* the module, whatever else the run was given.                            *)
C5_PlanWellFormed ==
    ResolvedOk =>
        /\ commands # <<>>
        /\ NoDuplicates(commands)
        /\ Count(commands, IsRepoRegistration) = 1
        /\ commands = recipe(Key, config.module).commands

C5_Witness ==
    /\ pc = "running" /\ Key = <<"r","h","e","l","9">> /\ config.distro = <<"a","l","m","a","l","i","n","u","x">>
    /\ Len(commands) = 4 /\ Count(commands, IsRepoRegistration) = 1

FourStepShape(cmds) ==
    \E j, k \in 2..(Len(cmds) - 1) :
        /\ j < k
        /\ IsIndexUpdate(cmds[1])
        /\ IsRepoRegistration(cmds[j])
        /\ IsCacheRefresh(cmds[k])
        /\ IsDriverInstall(cmds[Len(cmds)])

(* C6: for every supported target and module the plan has the four-step    *)
(* shape: an index refresh or upgrade first, then the repository           *)
(* registration, then a cache clean or refresh, and the driver install     *)
(* last.                                                                   *)
C6_FourStepShape == ResolvedOk => FourStepShape(commands)

(* C7: with variant full, the last command of the plan installs the open   *)
(* driver package for module open and the proprietary driver package for   *)
(* module proprietary, on every supported target.                          *)
C7_ModuleSelectsPackage ==
    (ResolvedOk /\ config.variant = Full) =>
        /\ HasWord(commands[Len(commands)], "install")
        /\ config.module = Open => LastWord(commands[Len(commands)]) \in OpenPackages
        /\ config.module = Proprietary =>
              LastWord(commands[Len(commands)]) \in ProprietaryPackages

(* C8: the outcome of resolution (the plan, or the failure) is the one     *)
(* variant full gives, and exactly one WARNING advisory is logged when the *)
(* variant is compute-only or desktop-only and none when it is full.       *)
C8_VariantTreatedAsFull ==
    AfterResolve =>
        LET asFull == build_commands([config EXCEPT !.variant = Full], osFile, system)
        IN /\ commands = asFull.commands
           /\ asFull.ok <=> Entries("unsupported") = <<>>
           /\ Len(Entries("variant-treated-as-full")) =
                 IF config.variant \in {ComputeOnly, DesktopOnly} THEN 1 ELSE 0
           /\ \A i \in 1..Len(log) : log[i].level = "WARNING" <=>
                 log[i].kind = "variant-treated-as-full"

C8_Witness ==
    /\ pc = "done" /\ config.variant = DesktopOnly /\ commands # <<>>
    /\ Len(Entries("variant-treated-as-full")) = 1

ArchitectureAsStated(m) ==
    IF m \in {<<"x","8","6","_","6","4">>, <<"a","m","d","6","4">>} THEN <<"x","8","6","_","6","4">>
    ELSE IF m \in {<<"a","a","r","c","h","6","4">>, <<"a","r","m","6","4">>, <<"a","r","m","v","8">>} THEN <<"s","b","s","a">>
    ELSE m

(* C9 as stated: the detected architecture is x86_64 for the machine       *)
(* identifiers x86_64 and amd64, sbsa for aarch64, arm64 and armv8, and    *)
(* the machine identifier itself, unchanged, for every other identifier.   *)
C9_PassThroughUnchanged ==
    pc # "start" => default_arch = ArchitectureAsStated(machine)

(* C9 as amended: the mapping is applied to the lowercased identifier, and *)
(* every other identifier is returned lowercased.                          *)
C9_Lowercased ==
    pc # "start" => default_arch = ArchitectureAsStated(Lower(machine))

C9_Witness ==
    /\ pc = "detected" /\ machine = <<"R","I","S","C","V","6","4">> /\ default_arch = <<"r","i","s","c","v","6","4">>

(* C10: the outcome of resolution (the plan, or the failure) is the one    *)
(* arch x86_64 gives, and every repository URL of the plan is that of the  *)
(* x86_64 repository.                                                      *)
C10_ArchIgnored ==
    AfterResolve =>
        LET asX86 == build_commands([config EXCEPT !.arch = <<"x","8","6","_","6","4">>], osFile, system)
        IN /\ commands = asX86.commands
           /\ asX86.ok <=> Entries("unsupported") = <<>>
           /\ \A i \in 1..Len(commands) : \A j \in 1..Len(commands[i]) :
                 IsRepoUrl(commands[i][j]) => commands[i][j][3] = "x86_64"

C10_Witness ==
    /\ pc = "running" /\ config.arch = <<"s","b","s","a">> /\ args.arch = <<"S","B","S","A">>
    /\ \E i \in 1..Len(commands) : \E j \in 1..Len(commands[i]) :
          IsRepoUrl(commands[i][j]) /\ commands[i][j][3] = "x86_64"

=============================================================================
